---- MODULE Spec2Model ----
(***************************************************************************)
(* A model of mp4_to_apng.py: the batch conversion orchestrator that runs  *)
(* ffmpeg once per *.mp4 entry of the source directory.                    *)
(*                                                                         *)
(* File names are sequences of one-character strings, so that the glob     *)
(* pattern "*.mp4" and Path.stem are computed on names and not assumed.    *)
(* The environment (what `ffmpeg -version` does, what the directories are, *)
(* what ffmpeg does with each input) is chosen in Init and, for the        *)
(* per-file outcome, at the first invocation on that file; it is then the  *)
(* same for every later execution of the script.                           *)
(***************************************************************************)
EXTENDS Integers, Sequences, FiniteSets, TLC

\* ------------------------------------------------------------------ bounds
\* the largest number of entries in the source directory
MaxFiles == 2
\* how many times in succession the script is executed
NumRuns == 2

\* ----------------------------------------------------------- configuration
MP4_SOURCE_DIR == "mp4"
APNG_EXPORT_DIR == "export"
FFMPEG_OPTIONS_no_overwrite == <<"-vf", "fps=15,scale=320:-1:flags=lanczos", "-plays", "0", "-f", "apng">>
FFMPEG_OPTIONS == <<"-vf", "fps=15,scale=320:-1:flags=lanczos", "-plays", "0", "-f", "apng", "-y">>

\* the suffix of the glob pattern "*.mp4" and the suffix appended to the stem
MP4_EXT == <<".", "m", "p", "4">>
APNG_EXT == <<".", "a", "p", "n", "g">>

\* the entry names a source directory is drawn from
NameUniverse ==
    { <<"a">> \o MP4_EXT,
      <<"b">> \o MP4_EXT,
      MP4_EXT,
      MP4_EXT \o MP4_EXT,
      <<"a">> \o MP4_EXT \o MP4_EXT,
      <<"a", "m", "p", "4">>,
      <<"a", ".", "t", "x", "t">> }

\* what one ffmpeg invocation on an input can end in: exit status 0,
\* FileNotFoundError, CalledProcessError, any other Exception
Outcomes == {"ok", "notfound", "nonzero", "error"}

Range(s) == {s[i] : i \in DOMAIN s}

\* ---------------------------------------------------------- pure functions
\* Path.glob("*.mp4") on one entry name: "*" matches any prefix, the empty
\* one and one starting with a dot included
GlobMatch(name) ==
    /\ Len(name) >= Len(MP4_EXT)
    /\ SubSeq(name, Len(name) - Len(MP4_EXT) + 1, Len(name)) = MP4_EXT

\* str.rfind('.') as a 1-based index, 0 when there is no dot
RFindDot(name) ==
    LET dots == {i \in DOMAIN name : name[i] = "."}
    IN  IF dots = {} THEN 0 ELSE CHOOSE i \in dots : \A j \in dots : j <= i

\* PurePath.stem: the name up to its last dot, unless that dot is the first
\* or the last character of the name
Stem(name) ==
    LET i == RFindDot(name)
    IN  IF 1 < i /\ i < Len(name) THEN SubSeq(name, 1, i - 1) ELSE name

\* lines 170-171: output_filename = stem + ".apng"; export_dir / output_filename
OutputName(name) == Stem(name) \o APNG_EXT
InputPath(name) == [dir |-> MP4_SOURCE_DIR, name |-> name]
OutputPath(name) == [dir |-> APNG_EXPORT_DIR, name |-> OutputName(name)]

\* lines 91-96: the argument list of one conversion
Command(mp4_filepath, apng_filepath) ==
    <<"ffmpeg", "-i", mp4_filepath>> \o FFMPEG_OPTIONS \o <<apng_filepath>>

CommandInput(cmd) == cmd[3]
CommandOutput(cmd) == cmd[Len(cmd)]
CommandOptions(cmd) == {cmd[i] : i \in 4..(Len(cmd) - 1)}

\* every order the directory listing can come in
Orderings(S) ==
    {s \in [1..Cardinality(S) -> S] : \A i, j \in 1..Cardinality(S) : s[i] = s[j] => i = j}

\* lines 59-72: the value check_ffmpeg returns
check_ffmpeg_ignores_failure(state) == TRUE
check_ffmpeg(state) == state = "ok"

\* line 141: source_dir.is_dir()
SourceIsDir_exists(kind) == kind # "absent"
SourceIsDir(kind) == kind = "dir"

\* lines 173-176: the counters after one conversion returned ok
Tally_drops_failure(ok, sc, fc) == IF ok THEN <<sc + 1, fc>> ELSE <<sc, fc>>
Tally(ok, sc, fc) == IF ok THEN <<sc + 1, fc>> ELSE <<sc, fc + 1>>

\* lines 188-191: the exit status after the summary
ExitStatus_always_success(fc) == 0
ExitStatus(fc) == IF fc > 0 THEN 1 ELSE 0

Entry(level, msg, file) == [level |-> level, msg |-> msg, file |-> file]
NoFile == <<>>

VARIABLES
    ffmpegState,     \* what `ffmpeg -version` does: "ok", "notfound", "nonzero", "oserror"
    sourceKind,      \* the source path: "dir", "absent", "file"
    sourceReadable,  \* whether the source directory can be listed
    sourceEntries,   \* the entry names of the source directory
    mkdirOk,         \* whether export_dir.mkdir succeeds
    toolOutcome,     \* what ffmpeg does with an input, once it has been run on it
    exportKind,      \* the export path: "dir", "absent", "file"
    exportFiles,     \* the file names in the export directory
    run,             \* which execution of the script this is
    pc,              \* where main() is
    mp4_files,       \* the list of discovered inputs
    idx,             \* how many elements of mp4_files the loop has consumed
    success_count,
    failure_count,
    invocations,     \* the conversions run so far: [cmd, result]
    log,             \* the messages logged by this execution
    exitCode,        \* the process exit status, -1 while running
    exitAt,          \* which exit ended the execution
    summary,         \* the summary logged at lines 180-183, if any
    prev             \* what the previous execution left behind, if any

env == <<ffmpegState, sourceKind, sourceReadable, sourceEntries, mkdirOk>>
proc == <<mp4_files, idx, success_count, failure_count, invocations, summary>>
vars == <<env, toolOutcome, exportKind, exportFiles, run, pc, proc, log, exitCode, exitAt, prev>>

Init ==
    /\ ffmpegState \in {"ok", "notfound", "nonzero", "oserror"}
    /\ sourceKind \in {"dir", "absent", "file"}
    /\ sourceReadable \in BOOLEAN
    /\ sourceEntries \in {S \in SUBSET NameUniverse : Cardinality(S) <= MaxFiles}
    /\ (sourceKind # "dir" => sourceEntries = {} /\ sourceReadable)
    /\ exportKind \in {"dir", "absent", "file"}
    /\ exportFiles \in SUBSET {OutputName(<<"a">> \o MP4_EXT)}
    /\ (exportKind # "dir" => exportFiles = {})
    /\ mkdirOk \in BOOLEAN
    /\ (exportKind = "file" => ~mkdirOk)
    /\ (exportKind = "dir" => mkdirOk)
    /\ toolOutcome = [n \in {} |-> "ok"]
    /\ run = 1
    /\ pc = "check"
    /\ mp4_files = <<>>
    /\ idx = 0
    /\ success_count = 0
    /\ failure_count = 0
    /\ invocations = <<>>
    /\ log = <<>>
    /\ exitCode = -1
    /\ exitAt = "none"
    /\ summary = <<>>
    /\ prev = <<>>

\* sys.exit(code) at the place `at`
Exit(code, at) ==
    /\ pc' = "done"
    /\ exitCode' = code
    /\ exitAt' = at

\* lines 127-131 and 59-72: the tool availability check
CheckFfmpeg ==
    /\ pc = "check"
    /\ UNCHANGED <<env, toolOutcome, exportKind, exportFiles, run, proc, prev>>
    /\ LET started == <<Entry("INFO", "started", NoFile), Entry("INFO", "checking", NoFile)>>
       IN  IF ffmpegState = "oserror"
           THEN \* an OSError that is neither except clause's: the exception
                \* leaves main() and the interpreter exits with status 1
                /\ log' = log \o started
                /\ Exit(1, "uncaught")
           ELSE /\ log' = log \o started \o
                       (CASE ffmpegState = "ok" -> <<Entry("INFO", "ffmpeg_found", NoFile)>>
                          [] ffmpegState = "notfound" -> <<Entry("ERROR", "ffmpeg_not_found", NoFile)>>
                          [] ffmpegState = "nonzero" -> <<Entry("ERROR", "ffmpeg_check_error", NoFile)>>)
                /\ IF check_ffmpeg(ffmpegState)
                   THEN pc' = "source" /\ UNCHANGED <<exitCode, exitAt>>
                   ELSE Exit(1, "toolcheck")

\* lines 134-143: the source directory
CheckSource ==
    /\ pc = "source"
    /\ UNCHANGED <<env, toolOutcome, exportKind, exportFiles, run, proc, prev>>
    /\ LET dirs == <<Entry("INFO", "source_dir", NoFile), Entry("INFO", "export_dir", NoFile)>>
       IN  IF SourceIsDir(sourceKind)
           THEN /\ log' = log \o dirs
                /\ pc' = "export"
                /\ UNCHANGED <<exitCode, exitAt>>
           ELSE /\ log' = log \o dirs \o <<Entry("ERROR", "source_not_found", NoFile)>>
                /\ Exit(1, "source")

\* lines 145-151 with the failure of mkdir passed over instead of exiting
EnsureExport_mkdir_failure_ignored ==
    /\ pc = "export"
    /\ UNCHANGED <<env, toolOutcome, exportFiles, run, proc, prev, exitCode, exitAt>>
    /\ pc' = "discover"
    /\ IF exportKind = "dir"
       THEN UNCHANGED <<exportKind, log>>
       ELSE IF mkdirOk
            THEN /\ exportKind' = "dir"
                 /\ log' = Append(log, Entry("INFO", "creating_export", NoFile))
            ELSE /\ UNCHANGED exportKind
                 /\ log' = log \o <<Entry("INFO", "creating_export", NoFile),
                                    Entry("ERROR", "mkdir_failed", NoFile)>>

\* lines 145-151: the export directory is created when it is not a directory
EnsureExport ==
    /\ pc = "export"
    /\ UNCHANGED <<env, toolOutcome, exportFiles, run, proc, prev>>
    /\ IF exportKind = "dir"
       THEN /\ pc' = "discover"
            /\ UNCHANGED <<exportKind, log, exitCode, exitAt>>
       ELSE IF mkdirOk
            THEN /\ exportKind' = "dir"
                 /\ log' = Append(log, Entry("INFO", "creating_export", NoFile))
                 /\ pc' = "discover"
                 /\ UNCHANGED <<exitCode, exitAt>>
            ELSE \* OSError: mkdir(parents=True, exist_ok=True) on a path
                 \* that is a file, or that cannot be created
                 /\ UNCHANGED exportKind
                 /\ log' = log \o <<Entry("INFO", "creating_export", NoFile),
                                    Entry("ERROR", "mkdir_failed", NoFile)>>
                 /\ Exit(1, "mkdir")

\* line 154: what source_dir.glob("*.mp4") yields. A directory that cannot
\* be listed yields nothing: pathlib passes over the PermissionError of scandir.
Listing == IF sourceKind = "dir" /\ sourceReadable THEN sourceEntries ELSE {}
Discovered == {n \in Listing : GlobMatch(n)}

\* lines 153-165 without the early exit of the empty case
Discover_no_early_exit ==
    /\ pc = "discover"
    /\ UNCHANGED <<env, toolOutcome, exportKind, exportFiles, run, prev, invocations, summary>>
    /\ \E files \in Orderings(Discovered) :
          /\ mp4_files' = files
          /\ log' = Append(log, Entry("INFO", "found_files", NoFile))
          /\ idx' = 0
          /\ success_count' = 0
          /\ failure_count' = 0
          /\ pc' = "loop"
          /\ UNCHANGED <<exitCode, exitAt>>

\* lines 153-165: file discovery, the empty case, the counters set to 0
Discover ==
    /\ pc = "discover"
    /\ UNCHANGED <<env, toolOutcome, exportKind, exportFiles, run, prev, invocations, summary>>
    /\ \E files \in Orderings(Discovered) :
          /\ mp4_files' = files
          /\ IF Len(files) = 0
             THEN /\ log' = log \o <<Entry("WARNING", "no_files", NoFile),
                                     Entry("INFO", "finished_no_files", NoFile)>>
                  /\ UNCHANGED <<idx, success_count, failure_count>>
                  /\ Exit(0, "nofiles")
             ELSE /\ log' = Append(log, Entry("INFO", "found_files", NoFile))
                  /\ idx' = 0
                  /\ success_count' = 0
                  /\ failure_count' = 0
                  /\ pc' = "loop"
                  /\ UNCHANGED <<exitCode, exitAt>>

\* what ffmpeg ends in on cmd when it would end in o on the input alone:
\* without -y it refuses to replace an output file that is there
FfmpegResult(cmd, o) ==
    IF o = "ok" /\ CommandOutput(cmd).name \in exportFiles /\ "-y" \notin CommandOptions(cmd)
    THEN "nonzero"
    ELSE o

\* lines 85-121: the messages one conversion logs
ConvertLog(name, result) ==
    <<Entry("INFO", "starting", name), Entry("DEBUG", "input_path", name),
      Entry("DEBUG", "output_path", name), Entry("DEBUG", "command", name)>> \o
    (CASE result = "ok" -> <<Entry("INFO", "converted", name), Entry("DEBUG", "stdout", name),
                             Entry("DEBUG", "stderr", name)>>
       [] result = "notfound" -> <<Entry("ERROR", "ffmpeg_not_found", name)>>
       [] result = "nonzero" -> <<Entry("ERROR", "ffmpeg_exit_status", name),
                                  Entry("ERROR", "ffmpeg_stderr", name)>>
       [] result = "error" -> <<Entry("ERROR", "unexpected_error", name)>>)

\* line 167: the position of the for loop after one element
NextIndex_break_on_failure(i, ok) == IF ok THEN i + 1 ELSE Len(mp4_files)
NextIndex(i, ok) == i + 1

\* lines 167-176 and 74-121: one iteration of the loop, the conversion included
ConvertNext ==
    /\ pc = "loop"
    /\ idx < Len(mp4_files)
    /\ UNCHANGED <<env, exportKind, run, prev, mp4_files, summary, pc, exitCode, exitAt>>
    /\ LET name == mp4_files[idx + 1]
           cmd == Command(InputPath(name), OutputPath(name))
       IN  \E o \in Outcomes :
              /\ name \in DOMAIN toolOutcome => o = toolOutcome[name]
              /\ toolOutcome' = [n \in DOMAIN toolOutcome \cup {name} |->
                                    IF n = name THEN o ELSE toolOutcome[n]]
              /\ LET result == FfmpegResult(cmd, o)
                     counts == Tally(result = "ok", success_count, failure_count)
                 IN  /\ invocations' = Append(invocations, [cmd |-> cmd, result |-> result])
                     /\ exportFiles' = IF result = "ok"
                                       THEN exportFiles \cup {CommandOutput(cmd).name}
                                       ELSE exportFiles
                     /\ log' = log \o ConvertLog(name, result)
                     /\ success_count' = counts[1]
                     /\ failure_count' = counts[2]
                     /\ idx' = NextIndex(idx, result = "ok")

\* lines 179-191: the summary and the exit status
Summarize ==
    /\ pc = "loop"
    /\ idx >= Len(mp4_files)
    /\ UNCHANGED <<env, toolOutcome, exportKind, exportFiles, run, prev>>
    /\ UNCHANGED <<mp4_files, idx, success_count, failure_count, invocations>>
    /\ summary' = <<[total |-> Len(mp4_files), success |-> success_count,
                     failure |-> failure_count]>>
    /\ log' = log \o <<Entry("INFO", "summary", NoFile), Entry("INFO", "total", NoFile),
                       Entry("INFO", "successful", NoFile), Entry("INFO", "failed", NoFile),
                       Entry("INFO", "log_file", NoFile), Entry("INFO", "export_dir", NoFile),
                       Entry("INFO", "finished", NoFile)>>
    /\ Exit(ExitStatus(failure_count), "summary")

\* lines 193-195 and 37-55: the script is executed again, on the file system
\* the execution before left, with a log file opened afresh
Rerun ==
    /\ pc = "done"
    /\ run < NumRuns
    /\ UNCHANGED <<env, toolOutcome, exportKind, exportFiles>>
    /\ prev' = <<[exportFiles |-> exportFiles, summary |-> summary, exitCode |-> exitCode]>>
    /\ run' = run + 1
    /\ pc' = "check"
    /\ mp4_files' = <<>>
    /\ idx' = 0
    /\ success_count' = 0
    /\ failure_count' = 0
    /\ invocations' = <<>>
    /\ log' = <<>>
    /\ exitCode' = -1
    /\ exitAt' = "none"
    /\ summary' = <<>>

Next ==
    \/ CheckFfmpeg
    \/ CheckSource
    \/ EnsureExport
    \/ Discover
    \/ ConvertNext
    \/ Summarize
    \/ Rerun

Spec == Init /\ [][Next]_vars

\* ------------------------------------------------------------- vocabulary
Done == pc = "done"
ToolAvailable == ffmpegState = "ok"
\* the source directory's entries that match the input extension
Matching == {n \in sourceEntries : GlobMatch(n)}
HasLog(level, msg) == \E i \in DOMAIN log : log[i].level = level /\ log[i].msg = msg
HasError == \E i \in DOMAIN log : log[i].level = "ERROR"
HasErrorAbout(name) == \E i \in DOMAIN log : log[i].level = "ERROR" /\ log[i].file = name
InvokedInput(i) == CommandInput(invocations[i].cmd).name
InvokedOutput(i) == CommandOutput(invocations[i].cmd).name
InvocationsOf(name) == Cardinality({i \in DOMAIN invocations : InvokedInput(i) = name})
Succeeded == {i \in DOMAIN invocations : invocations[i].result = "ok"}

\* C1: an execution that has ended has exit status 0 or 1, and it is 0
\* exactly when the tool was available, the source path is a directory, the
\* export directory exists or was created, and no conversion failed.
C1_ExitCode ==
    Done =>
        /\ exitCode \in {0, 1}
        /\ exitCode = 0 <=>
              /\ ToolAvailable
              /\ sourceKind = "dir"
              /\ exportKind = "dir"
              /\ failure_count = 0
              /\ \A i \in DOMAIN invocations : invocations[i].result = "ok"

C1_Witness ==
    /\ Done
    /\ exitCode = 1
    /\ ToolAvailable /\ sourceKind = "dir" /\ exportKind = "dir"
    /\ failure_count = 1 /\ success_count = 1

C2_NothingTouched ==
    /\ exportKind' = exportKind
    /\ exportFiles' = exportFiles
    /\ pc' \in {"check", "done"}
    /\ mp4_files' = <<>>
    /\ invocations' = <<>>

\* C2: when `ffmpeg -version` is not found or exits non-zero, no step of the
\* execution creates the export directory, discovers files or runs a
\* conversion, and the execution ends with exit status 1.
C2_ToolUnavailable ==
    /\ [][(ffmpegState \in {"notfound", "nonzero"}) => C2_NothingTouched]_vars
    /\ [](Done /\ ffmpegState \in {"notfound", "nonzero"} => exitCode = 1)

C2_Witness ==
    /\ Done
    /\ ffmpegState = "notfound"
    /\ sourceKind = "dir" /\ Matching # {}
    /\ exportKind = "absent" /\ mkdirOk
    /\ exitCode = 1

\* C3: with the tool available and a source path that is absent or not a
\* directory, the execution ends with exit status 1 and never reaches file
\* discovery or a conversion.
C3_BadSource ==
    (ToolAvailable /\ sourceKind # "dir") =>
        /\ pc \in {"check", "source", "done"}
        /\ mp4_files = <<>>
        /\ invocations = <<>>
        /\ (Done => exitCode = 1)

C3_Witness ==
    /\ Done
    /\ ToolAvailable
    /\ sourceKind = "file"
    /\ exportKind = "absent"
    /\ exitCode = 1

\* C4 as stated: with the tool available, the source a directory and no
\* entry matching the extension, the execution ends with exit status 0 and a
\* summary whose total, success and failure counts are 0, without conversion.
C4_Original ==
    (Done /\ ToolAvailable /\ sourceKind = "dir" /\ Matching = {}) =>
        /\ exitCode = 0
        /\ summary = <<[total |-> 0, success |-> 0, failure |-> 0]>>
        /\ invocations = <<>>

\* C4 as amended: with the tool available, the source a directory, the
\* export directory there or created, and no entry matching the extension,
\* the execution ends with exit status 0 after a warning, without any
\* conversion and without a summary.
C4_NoFiles ==
    (Done /\ ToolAvailable /\ sourceKind = "dir" /\ exportKind = "dir" /\ Matching = {}) =>
        /\ exitCode = 0
        /\ invocations = <<>>
        /\ HasLog("WARNING", "no_files")
        /\ summary = <<>>

C4_Witness ==
    /\ Done
    /\ ToolAvailable /\ sourceKind = "dir" /\ exportKind = "dir"
    /\ sourceEntries # {} /\ Matching = {}
    /\ exitCode = 0

\* C5: a summary's success and failure counts add up to its total, which is
\* the number of discovered input files.
C5_CountsAddUp ==
    summary # <<>> =>
        /\ summary[1].success + summary[1].failure = summary[1].total
        /\ summary[1].total = Len(mp4_files)
        /\ summary[1].total = Cardinality({n \in sourceEntries : GlobMatch(n) /\ sourceReadable})

C5_Witness ==
    /\ summary # <<>>
    /\ summary[1].success = 1
    /\ summary[1].failure = 1
    /\ \E i \in DOMAIN invocations : invocations[i].result = "error"

\* C6: no discovered file is converted twice, conversions are of discovered
\* files only, and an execution that entered the loop ends only after every
\* discovered file has been converted exactly once, whatever failed before.
C6_ExactlyOnce ==
    /\ \A i \in DOMAIN invocations : InvokedInput(i) \in Range(mp4_files)
    /\ \A n \in Range(mp4_files) :
          /\ InvocationsOf(n) <= 1
          /\ Done => InvocationsOf(n) = 1

C6_Witness ==
    /\ Done
    /\ Len(mp4_files) = 2
    /\ Len(invocations) = 2
    /\ invocations[1].result = "notfound"
    /\ invocations[2].result = "ok"

\* C7: every conversion is run with the export directory in place, and an
\* execution that could not create it ends with exit status 1 without a
\* conversion.
C7_ExportBeforeConvert ==
    /\ [][Len(invocations') > Len(invocations) => exportKind = "dir"]_vars
    /\ [](invocations # <<>> => exportKind = "dir")
    /\ [](Done /\ ToolAvailable /\ sourceKind = "dir" /\ exportKind # "dir" =>
            exitCode = 1 /\ invocations = <<>>)

C7_Witness ==
    /\ HasLog("INFO", "creating_export")
    /\ exportKind = "dir"
    /\ invocations # <<>>
    /\ run = 1

\* C8: with the tool available, an execution that follows another one ends
\* with the same files in the export directory, the same summary and the
\* same exit status as the one before.
C8_Idempotent ==
    (Done /\ ToolAvailable /\ prev # <<>>) =>
        /\ exportFiles = prev[1].exportFiles
        /\ summary = prev[1].summary
        /\ exitCode = prev[1].exitCode

C8_Witness ==
    /\ Done
    /\ prev # <<>>
    /\ ToolAvailable
    /\ summary # <<>>
    /\ summary[1].success = 1
    /\ summary[1].failure = 1

\* C9: every conversion writes to export directory + stem + ".apng", two
\* distinct discovered inputs have distinct output paths, and after the loop
\* the number of distinct output files written equals the success count.
C9_DistinctOutputs ==
    /\ \A i \in DOMAIN invocations :
          CommandOutput(invocations[i].cmd) =
              [dir |-> APNG_EXPORT_DIR, name |-> Stem(InvokedInput(i)) \o APNG_EXT]
    /\ \A i, j \in DOMAIN mp4_files :
          mp4_files[i] # mp4_files[j] => OutputPath(mp4_files[i]) # OutputPath(mp4_files[j])
    /\ summary # <<>> =>
          Cardinality({InvokedOutput(i) : i \in Succeeded}) = summary[1].success

\* C10: every failure leaves an error-level message in the log: a failed
\* tool check, an invalid source directory, an export directory that cannot
\* be created, a source directory that cannot be listed, and each failed
\* conversion, before the loop goes on.
C10_EveryFailureLogged ==
    /\ \A i \in DOMAIN invocations :
          invocations[i].result # "ok" => HasErrorAbout(InvokedInput(i))
    /\ Done =>
          /\ ~ToolAvailable => HasError
          /\ (ToolAvailable /\ sourceKind # "dir") => HasError
          /\ (ToolAvailable /\ sourceKind = "dir" /\ exportKind # "dir") => HasError
          /\ (ToolAvailable /\ sourceKind = "dir" /\ exportKind = "dir" /\ ~sourceReadable) =>
                HasError
====
